---- MODULE Spec2Model ----
(***************************************************************************)
(* envflag: the process-wide environment store (store.rs), its prefix-     *)
(* aware lookup, the chained query builder (builder.rs), the boolean       *)
(* normalizer and validators (validators.rs) and the convenience functions *)
(* (lib.rs).                                                               *)
(*                                                                         *)
(* Strings are sequences of one-character strings, so that trimming, case  *)
(* folding, concatenation and starts_with are computed, not assumed.       *)
(* Option<T> is a sequence of length 0 (None) or 1 (Some).                 *)
(***************************************************************************)
EXTENDS Integers, Sequences, FiniteSets, TLC

VARIABLES
    env,        \* the live process environment: a function key -> value
    instance,   \* store.rs INSTANCE: None, or Some(EnvStore)
    pc,         \* per thread: where the thread is inside InitBuilder::init
    loc,        \* per thread: the locals of the init call in progress
    last,       \* the call that returned most recently, with what it returned
    published,  \* history: the stores of the init calls that returned Ok, in order
    arg,        \* pure-function harness: the input drawn by Init
    ret         \* pure-function harness: the outputs computed so far

vars == <<env, instance, pc, loc, last, published, arg, ret>>

\* ------------------------------------------------------------------ bounds

\* Threads of the process that may call into the crate.
NThreads == 2

\* Longest prefix list an InitBuilder or a directly built store is given.
MaxPrefixes == 2

\* Longest validator chain added with validate().
MaxValidators == 2

\* Longest run of whitespace put before and after a normalizer input.
MaxPad == 1

\* Most well-formed lines of an overlay file.
MaxLines == 1

\* ----------------------------------------------------------------- options

None == <<>>
Some(x) == <<x>>
IsSome(o) == o # <<>>
Unwrap(o) == o[1]

\* ----------------------------------------------------------------- strings

UpperCase ==
    <<"A","B","C","D","E","F","G","H","I","J","K","L","M",
      "N","O","P","Q","R","S","T","U","V","W","X","Y","Z">>
LowerCase ==
    <<"a","b","c","d","e","f","g","h","i","j","k","l","m",
      "n","o","p","q","r","s","t","u","v","w","x","y","z">>
Digits == <<"0","1","2","3","4","5","6","7","8","9">>

\* char::is_whitespace, restricted to the characters the model draws.
WhiteSpace == {" ", "\t"}

sTrue == <<"t","r","u","e">>
sFalse == <<"f","a","l","s","e">>
sYes == <<"y","e","s">>
sNo == <<"n","o">>
sOne == <<"1">>
sZero == <<"0">>

\* u8::to_ascii_lowercase on one character.
to_ascii_lowercase(c) ==
    IF \E i \in 1..26 : UpperCase[i] = c
    THEN LowerCase[CHOOSE i \in 1..26 : UpperCase[i] = c]
    ELSE c

to_ascii_uppercase(c) ==
    IF \E i \in 1..26 : LowerCase[i] = c
    THEN UpperCase[CHOOSE i \in 1..26 : LowerCase[i] = c]
    ELSE c

\* str::eq_ignore_ascii_case
eq_ignore_ascii_case(a, b) ==
    /\ Len(a) = Len(b)
    /\ \A i \in 1..Len(a) : to_ascii_lowercase(a[i]) = to_ascii_lowercase(b[i])

\* str::to_lowercase; on the ASCII characters of the model it folds A-Z only.
to_lowercase(s) == [i \in 1..Len(s) |-> to_ascii_lowercase(s[i])]

RECURSIVE trim_start(_)
trim_start(s) ==
    IF s # <<>> /\ Head(s) \in WhiteSpace THEN trim_start(Tail(s)) ELSE s

RECURSIVE trim_end(_)
trim_end(s) ==
    IF s # <<>> /\ s[Len(s)] \in WhiteSpace
    THEN trim_end(SubSeq(s, 1, Len(s) - 1))
    ELSE s

\* str::trim
trim(s) == trim_end(trim_start(s))

\* str::starts_with (case-sensitive)
starts_with(s, p) == Len(p) <= Len(s) /\ SubSeq(s, 1, Len(p)) = p

\* format!("{p}{key}")
format(p, key) == p \o key

\* -------------------------------------------------------------- validators.rs

\* A plausible slip: the fall-through arm hands back the trimmed slice.
normalize_bool_ReturnsTrimmed(s) ==
    LET trimmed == trim(s) IN
    IF eq_ignore_ascii_case(trimmed, sTrue) THEN sTrue
    ELSE IF eq_ignore_ascii_case(trimmed, sFalse) THEN sFalse
    ELSE IF to_lowercase(trimmed) \in {sOne, sYes} THEN sTrue
    ELSE IF to_lowercase(trimmed) \in {sZero, sNo} THEN sFalse
    ELSE trimmed

normalize_bool(s) ==
    LET trimmed == trim(s) IN
    IF eq_ignore_ascii_case(trimmed, sTrue) THEN sTrue
    ELSE IF eq_ignore_ascii_case(trimmed, sFalse) THEN sFalse
    ELSE IF to_lowercase(trimmed) \in {sOne, sYes} THEN sTrue
    ELSE IF to_lowercase(trimmed) \in {sZero, sNo} THEN sFalse
    ELSE s

\* ------------------------------------------------------- parsing (FromStr)

\* Largest value of the unsigned 16-bit target type.
U16Max == 65535

DigitVal(c) == (CHOOSE i \in 1..10 : Digits[i] = c) - 1

IsDigits(s) == s # <<>> /\ \A i \in 1..Len(s) : \E d \in 1..10 : Digits[d] = s[i]

\* The digit loop of from_str: checked_mul and checked_add, None on overflow.
RECURSIVE checked_digits(_, _)
checked_digits(acc, s) ==
    IF s = <<>> THEN Some(acc)
    ELSE LET n == acc * 10 + DigitVal(Head(s)) IN
         IF n > U16Max THEN None ELSE checked_digits(n, Tail(s))

\* <u16 as FromStr>::from_str: an optional "+", then digits, no overflow.
parse_u16(s) ==
    LET body == IF s # <<>> /\ Head(s) = "+" THEN Tail(s) ELSE s IN
    IF IsDigits(body) THEN checked_digits(0, body) ELSE None

\* <bool as FromStr>::from_str: exactly "true" or "false".
parse_bool(s) ==
    IF s = sTrue THEN Some(TRUE) ELSE IF s = sFalse THEN Some(FALSE) ELSE None

\* Typed values: one record shape per target type.
U16(n) == [u16 |-> n]
Bool(b) == [bool |-> b]
Str(s) == [string |-> s]

\* str::parse::<T>() for the target types of the model.
parse(T, s) ==
    IF T = "u16"
    THEN (IF IsSome(parse_u16(s)) THEN Some(U16(Unwrap(parse_u16(s)))) ELSE None)
    ELSE IF T = "bool"
    THEN (IF IsSome(parse_bool(s)) THEN Some(Bool(Unwrap(parse_bool(s)))) ELSE None)
    ELSE Some(Str(s))

\* <u16 as ToString>::to_string
RECURSIVE to_string(_)
to_string(n) ==
    IF n < 10 THEN <<Digits[n + 1]>> ELSE to_string(n \div 10) \o <<Digits[(n % 10) + 1]>>

\* ------------------------------------------------- validators.rs predicates

is_non_empty(s) == trim(s) # <<>>

is_bool(s) == to_lowercase(trim(s)) \in {sTrue, sOne, sYes, sFalse, sZero, sNo}

is_port(s) == IsSome(parse_u16(trim(s))) /\ Unwrap(parse_u16(trim(s))) > 0

\* A validator of the list handed to validate(), called on a string.
call_validator(v, s) ==
    IF v = "is_non_empty" THEN is_non_empty(s)
    ELSE IF v = "is_bool" THEN is_bool(s)
    ELSE is_port(s)

\* ------------------------------------------------------------------ error.rs

Ok(v) == [ok |-> v]
ErrAlreadyInitialized == [err |-> "AlreadyInitialized"]
ErrNotInitialized == [err |-> "NotInitialized"]
ErrDotenv(cause) == [err |-> "Dotenv", cause |-> cause]
ErrNotSet(key) == [err |-> "NotSet", key |-> key]
ErrAmbiguousPrefix(key) == [err |-> "AmbiguousPrefix", key |-> key]
ErrValidationFailed(key, value) == [err |-> "ValidationFailed", key |-> key, value |-> value]
ErrParseFailed(key, value) == [err |-> "ParseFailed", key |-> key, value |-> value]

IsOk(r) == DOMAIN r = {"ok"}
IsErr(r, kind) == "err" \in DOMAIN r /\ r.err = kind

\* ------------------------------------------------------------------ store.rs

\* HashMap::get(k).cloned()
map_get(map, k) == IF k \in DOMAIN map THEN Some(map[k]) ELSE None

EnvStore(map, prefixes) == [map |-> map, prefixes |-> prefixes]

\* EnvStore::from_map
from_map(map) == EnvStore(map, <<>>)

\* EnvStore::from_map_with_prefixes
from_map_with_prefixes(map, prefixes) == EnvStore(map, prefixes)

\* A plausible slip: the single-prefix branch is tested before the explicit one.
lookup_SinglePrefixFirst(store, key, preferred_prefix) ==
    IF store.prefixes = <<>>
    THEN map_get(store.map, key)
    ELSE IF Len(store.prefixes) = 1
    THEN map_get(store.map, format(store.prefixes[1], key))
    ELSE IF IsSome(preferred_prefix)
    THEN map_get(store.map, format(Unwrap(preferred_prefix), key))
    ELSE None

\* EnvStore::lookup
lookup(store, key, preferred_prefix) ==
    IF store.prefixes = <<>>
    THEN map_get(store.map, key)
    ELSE IF IsSome(preferred_prefix)
    THEN map_get(store.map, format(Unwrap(preferred_prefix), key))
    ELSE IF Len(store.prefixes) = 1
    THEN map_get(store.map, format(store.prefixes[1], key))
    ELSE None

\* EnvStore::prefixes
prefixes(store) == store.prefixes

\* EnvStore::entries: the (key, value) pairs, in no order.
entries(store) == {<<k, store.map[k]>> : k \in DOMAIN store.map}

\* EnvStore::get_instance
get_instance(inst) == IF IsSome(inst) THEN Ok(Unwrap(inst)) ELSE ErrNotInitialized

\* ---------------------------------------------------------------- builder.rs

\* What a terminal operation did: its result, the validator calls it made in
\* order (validator, argument), and the string it handed to parse, if any.
Outcome(out, calls, parsed) == [out |-> out, calls |-> calls, parsed |-> parsed]
Quiet(out) == Outcome(out, <<>>, None)

\* A plausible slip: the normalization is left out.
val_str_of_Raw(T, raw) == raw

\* The TypeId::of::<T>() == TypeId::of::<bool>() branch of get and required.
val_str_of(T, raw) == IF T = "bool" THEN normalize_bool(raw) ELSE raw

\* A plausible slip: every validator is run and the failure reported afterwards.
RECURSIVE run_validators_NoShortCircuit(_, _, _)
run_validators_NoShortCircuit(validators, val_str, calls) ==
    IF validators = <<>>
    THEN [failed |-> \E i \in 1..Len(calls) : ~call_validator(calls[i].validator, val_str),
          calls |-> calls]
    ELSE run_validators_NoShortCircuit(Tail(validators), val_str,
            Append(calls, [validator |-> Head(validators), s |-> val_str]))

\* for v in &self.validators { if !v(&val_str) { return Err(..) } }
RECURSIVE run_validators(_, _, _)
run_validators(validators, val_str, calls) ==
    IF validators = <<>>
    THEN [failed |-> FALSE, calls |-> calls]
    ELSE LET called == Append(calls, [validator |-> Head(validators), s |-> val_str]) IN
         IF ~call_validator(Head(validators), val_str)
         THEN [failed |-> TRUE, calls |-> called]
         ELSE run_validators(Tail(validators), val_str, called)

\* A plausible slip: a parse failure of a present key is reported as NotSet.
parse_or_fail_NotSet(name, T, val_str) ==
    IF IsSome(parse(T, val_str))
    THEN Ok(Unwrap(parse(T, val_str)))
    ELSE ErrNotSet(name)

\* val_str.parse::<T>().map_err(|_| ParseFailed { key, value: val_str })
parse_or_fail(name, T, val_str) ==
    IF IsSome(parse(T, val_str))
    THEN Ok(Unwrap(parse(T, val_str)))
    ELSE ErrParseFailed(name, val_str)

\* The Some(raw) arm of TypedKeyBuilder::get.
get_present(name, T, raw, validators) ==
    LET val_str == val_str_of(T, raw)
        run == run_validators(validators, val_str, <<>>)
    IN  IF run.failed
        THEN Outcome(ErrValidationFailed(name, val_str), run.calls, None)
        ELSE Outcome(parse_or_fail(name, T, val_str), run.calls, Some(val_str))

\* <T as ToString>::to_string of a typed value.
value_to_string(v) ==
    IF "u16" \in DOMAIN v THEN to_string(v.u16)
    ELSE IF "bool" \in DOMAIN v THEN (IF v.bool THEN sTrue ELSE sFalse)
    ELSE v.string

\* A plausible slip: the default goes through the validators like a stored value.
get_absent_ValidatesDefault(name, default_val, validators) ==
    LET run == run_validators(validators, value_to_string(default_val), <<>>) IN
    IF run.failed
    THEN Outcome(ErrValidationFailed(name, value_to_string(default_val)), run.calls, None)
    ELSE Outcome(Ok(default_val), run.calls, None)

\* The None arm of TypedKeyBuilder::get.
get_absent(name, default_val, validators) == Quiet(Ok(default_val))

\* A plausible slip: the ambiguity test is left out, so the lookup decides.
ambiguous_CheckDropped(store, prefix) == FALSE

\* store.prefixes().len() > 1 && self.prefix.is_none()
ambiguous(store, prefix) == Len(prefixes(store)) > 1 /\ prefix = None

\* TypedKeyBuilder::get
TypedKeyBuilder_get(inst, name, prefix, T, default_val, validators) ==
    IF IsOk(get_instance(inst))
    THEN LET store == get_instance(inst).ok IN
         IF ambiguous(store, prefix)
         THEN Quiet(ErrAmbiguousPrefix(name))
         ELSE LET val_str_opt == lookup(store, name, prefix) IN
              IF IsSome(val_str_opt)
              THEN get_present(name, T, Unwrap(val_str_opt), validators)
              ELSE get_absent(name, default_val, validators)
    ELSE Quiet(get_instance(inst))

\* KeyBuilder::required
KeyBuilder_required(inst, name, prefix, T) ==
    IF IsOk(get_instance(inst))
    THEN LET store == get_instance(inst).ok IN
         IF ambiguous(store, prefix)
         THEN Quiet(ErrAmbiguousPrefix(name))
         ELSE LET raw == lookup(store, name, prefix) IN
              IF IsSome(raw)
              THEN LET val_str == val_str_of(T, Unwrap(raw)) IN
                   Outcome(parse_or_fail(name, T, val_str), <<>>, Some(val_str))
              ELSE Quiet(ErrNotSet(name))
    ELSE Quiet(get_instance(inst))

\* A plausible slip: the builder made by store.key() still asks the slot.
new_with_store_AsksSlot(inst, store) == inst

\* KeyBuilder::new_with_store, which EnvStore::key calls: the builder resolves
\* against the store it was made from, whatever the slot `inst` holds.
new_with_store(inst, store) == Some(store)

\* store.key(name)[.with_prefix(p)].default(d)[.validate(v)]*.get()
EnvStore_key_get(inst, store, name, prefix, T, default_val, validators) ==
    TypedKeyBuilder_get(new_with_store(inst, store), name, prefix, T, default_val, validators)

\* store.key(name)[.with_prefix(p)].required::<T>()
EnvStore_key_required(inst, store, name, prefix, T) ==
    KeyBuilder_required(new_with_store(inst, store), name, prefix, T)

\* --------------------------------------------------- lib.rs: EnvStore methods

\* The TypeId branch of EnvStore::get and EnvStore::lookup_parsed.
conv_val(T, val) == IF T = "bool" THEN normalize_bool(val) ELSE val

\* A plausible slip: with several prefixes the first one is tried instead of
\* giving up.
EnvStore_get_FirstPrefix(store, name, T, default) ==
    LET first == IF Len(store.prefixes) > 1 THEN Some(store.prefixes[1]) ELSE None
        found == lookup(store, name, first)
    IN  IF IsSome(found)
        THEN LET val == conv_val(T, Unwrap(found)) IN
             IF IsSome(parse(T, val)) THEN Unwrap(parse(T, val)) ELSE default
        ELSE default

\* EnvStore::get
EnvStore_get(store, name, T, default) ==
    LET found == lookup(store, name, None) IN
    IF IsSome(found)
    THEN LET val == conv_val(T, Unwrap(found)) IN
         IF IsSome(parse(T, val)) THEN Unwrap(parse(T, val)) ELSE default
    ELSE default

\* EnvStore::get_string
EnvStore_get_string(store, name, default) ==
    IF IsSome(lookup(store, name, None)) THEN Unwrap(lookup(store, name, None)) ELSE default

\* EnvStore::lookup_parsed
EnvStore_lookup_parsed(store, name, T) ==
    LET found == lookup(store, name, None) IN
    IF IsSome(found) THEN parse(T, conv_val(T, Unwrap(found))) ELSE None

\* EnvStore::lookup_string
EnvStore_lookup_string(store, name) == lookup(store, name, None)

\* EnvStore::is_set
EnvStore_is_set(store, name) == IsSome(lookup(store, name, None))

\* ------------------------------------------- lib.rs: convenience functions

Returned(v) == [value |-> v]
Panic == [panic |-> "envflag is not initialized"]
IsPanic(r) == DOMAIN r = {"panic"}

\* A plausible slip: an uninitialized store reads as "nothing is set".
is_set_NoPanic(inst, name) ==
    IF IsOk(get_instance(inst))
    THEN Returned(EnvStore_is_set(get_instance(inst).ok, name))
    ELSE Returned(FALSE)

\* get
get(inst, name, T, default) ==
    IF IsOk(get_instance(inst))
    THEN Returned(EnvStore_get(get_instance(inst).ok, name, T, default))
    ELSE Panic

\* get_string
get_string(inst, name, default) ==
    IF IsOk(get_instance(inst))
    THEN Returned(EnvStore_get_string(get_instance(inst).ok, name, default))
    ELSE Panic

\* lookup::<T>
lookup_parsed(inst, name, T) ==
    IF IsOk(get_instance(inst))
    THEN Returned(EnvStore_lookup_parsed(get_instance(inst).ok, name, T))
    ELSE Panic

\* lookup_string
lookup_string(inst, name) ==
    IF IsOk(get_instance(inst))
    THEN Returned(EnvStore_lookup_string(get_instance(inst).ok, name))
    ELSE Panic

\* is_set
is_set(inst, name) ==
    IF IsOk(get_instance(inst))
    THEN Returned(EnvStore_is_set(get_instance(inst).ok, name))
    ELSE Panic

\* entries
global_entries(inst) ==
    IF IsOk(get_instance(inst))
    THEN Returned(entries(get_instance(inst).ok))
    ELSE Panic

\* A plausible slip: the boolean accessor goes through the generic get, whose
\* normalizer trims and whose parse failure falls back to the default.
get_bool_ViaGet(inst, name, default) == get(inst, name, "bool", default)

\* get_bool, which examples/simple.rs calls: true for "true", "1" and "yes" in
\* any case, false for every other stored value, the default when not set.
get_bool(inst, name, default) ==
    IF IsOk(get_instance(inst))
    THEN LET found == lookup(get_instance(inst).ok, name, None) IN
         IF IsSome(found)
         THEN Returned(Bool(\E w \in {sTrue, sOne, sYes} :
                                eq_ignore_ascii_case(Unwrap(found), w)))
         ELSE Returned(default)
    ELSE Panic

\* ------------------------------------------------- store.rs: InitBuilder::init

Unit == <<>>

\* What the overlay file turns out to be when init opens it: absent, unreadable,
\* or readable with `lines` well-formed KEY=value lines, followed (bad) or not
\* by a line that does not parse.
FileNotFound == [status |-> "not_found", lines |-> <<>>, bad |-> FALSE]
FileUnreadable == [status |-> "unreadable", lines |-> <<>>, bad |-> FALSE]
FileOk(lines, bad) == [status |-> "ok", lines |-> lines, bad |-> bad]

\* A plausible slip: the not_found() arm is missing, so every error of the
\* default file is returned.
open_overlay_MissingDefaultFails(path_given, file) ==
    IF file.status = "ok" THEN "load" ELSE "fail"

\* Step 1 of init: dotenvy::from_path(p)? for an explicit path, dotenvy::dotenv()
\* with not_found() ignored otherwise.
open_overlay(path_given, file) ==
    IF path_given
    THEN (IF file.status = "ok" THEN "load" ELSE "fail")
    ELSE (IF file.status = "ok" THEN "load"
          ELSE IF file.status = "not_found" THEN "skip"
          ELSE "fail")

\* std::env::set_var
set_var(e, k, v) == [x \in (DOMAIN e) \cup {k} |-> IF x = k THEN v ELSE e[x]]

\* One line of the overlay, as dotenvy's loader applies it: a variable that is
\* already set in the environment is left alone.
load_line(e, line) == IF line[1] \in DOMAIN e THEN e ELSE set_var(e, line[1], line[2])

\* Step 2 of init: env::vars().collect(), the prefix filter, the EnvStore.
build_store(all_vars, prefs) ==
    EnvStore(
        IF prefs = <<>>
        THEN all_vars
        ELSE [k \in {x \in DOMAIN all_vars :
                        \E i \in 1..Len(prefs) : starts_with(x, prefs[i])} |-> all_vars[k]],
        prefs)

\* A plausible slip: the result of set is dropped and init reports success.
publish_IgnoresOccupied(inst, store) ==
    IF inst = None
    THEN [instance |-> Some(store), out |-> Ok(Unit)]
    ELSE [instance |-> inst, out |-> Ok(Unit)]

\* A plausible slip: a slot that can be written again (a lock around an Option).
publish_Overwrites(inst, store) ==
    IF inst = None
    THEN [instance |-> Some(store), out |-> Ok(Unit)]
    ELSE [instance |-> Some(store), out |-> ErrAlreadyInitialized]

\* INSTANCE.set(store).map_err(|_| AlreadyInitialized)?; Ok(())
publish(inst, store) ==
    IF inst = None
    THEN [instance |-> Some(store), out |-> Ok(Unit)]
    ELSE [instance |-> inst, out |-> ErrAlreadyInitialized]

\* ------------------------------------------------------------------- state

Threads == 1..NThreads

IdleLoc ==
    [prefixes |-> <<>>, lines |-> <<>>, todo |-> <<>>, bad |-> FALSE, store |-> None,
     populated |-> FALSE]

NoCall == [op |-> "none"]

\* An init call that returned `out`: whether the slot was populated when the
\* call was made, the step it returned from, the store it had built, and the
\* overlay lines it had merged.
InitReturned(out, populated, stage, built, lines) ==
    [op |-> "init", out |-> out, populated |-> populated, stage |-> stage, built |-> built,
     lines |-> lines]

\* ----------------------------------------------------------------- actions

\* init / init_from / builder()...init(): the call, up to the opened overlay.
Init_call(t, path_given, file, prefs) ==
    /\ pc[t] = "idle"
    /\ LET how == open_overlay(path_given, file)
           fails == how = "fail" \/ (how = "load" /\ file.lines = <<>> /\ file.bad)
           loads == how = "load" /\ file.lines # <<>>
           me == [prefixes |-> prefs,
                  lines |-> IF loads THEN file.lines ELSE <<>>,
                  todo |-> IF loads THEN file.lines ELSE <<>>,
                  bad |-> loads /\ file.bad,
                  store |-> None,
                  populated |-> IsSome(instance)]
       IN  IF fails
           THEN /\ last' = InitReturned(ErrDotenv(IF how = "fail" THEN "Io" ELSE "LineParse"),
                                        IsSome(instance), "load", None, <<>>)
                /\ UNCHANGED <<pc, loc>>
           ELSE /\ pc' = [pc EXCEPT ![t] = IF loads THEN "load" ELSE "snapshot"]
                /\ loc' = [loc EXCEPT ![t] = me]
                /\ last' = NoCall
    /\ UNCHANGED <<env, instance, published, arg, ret>>

\* One overlay line merged into the live environment; after the last one the
\* loader either hits the unparsable line and init returns, or init goes on.
Init_load(t) ==
    /\ pc[t] = "load"
    /\ env' = load_line(env, Head(loc[t].todo))
    /\ LET rest == Tail(loc[t].todo) IN
       IF rest # <<>>
       THEN /\ loc' = [loc EXCEPT ![t].todo = rest]
            /\ UNCHANGED <<pc, last>>
       ELSE IF loc[t].bad
       THEN /\ pc' = [pc EXCEPT ![t] = "idle"]
            /\ loc' = [loc EXCEPT ![t] = IdleLoc]
            /\ last' = InitReturned(ErrDotenv("LineParse"), loc[t].populated, "load", None,
                                    loc[t].lines)
       ELSE /\ pc' = [pc EXCEPT ![t] = "snapshot"]
            /\ loc' = [loc EXCEPT ![t].todo = <<>>]
            /\ UNCHANGED last
    /\ UNCHANGED <<instance, published, arg, ret>>

\* The snapshot of the environment and the store built from it.
Init_snapshot(t) ==
    /\ pc[t] = "snapshot"
    /\ pc' = [pc EXCEPT ![t] = "publish"]
    /\ loc' = [loc EXCEPT ![t].store = Some(build_store(env, loc[t].prefixes))]
    /\ UNCHANGED <<env, instance, last, published, arg, ret>>

\* The set-if-empty publication and the return of init.
Init_publish(t) ==
    /\ pc[t] = "publish"
    /\ LET r == publish(instance, Unwrap(loc[t].store)) IN
       /\ instance' = r.instance
       /\ last' = InitReturned(r.out, loc[t].populated, "publish", loc[t].store,
                               loc[t].lines)
       /\ published' = IF IsOk(r.out) THEN Append(published, Unwrap(loc[t].store))
                       ELSE published
    /\ pc' = [pc EXCEPT ![t] = "idle"]
    /\ loc' = [loc EXCEPT ![t] = IdleLoc]
    /\ UNCHANGED <<env, arg, ret>>

\* key(name)[.with_prefix(p)].default(d)[.validate(v)]*.get()
Key_get(t, name, prefix, T, default_val, validators) ==
    /\ pc[t] = "idle"
    /\ LET r == TypedKeyBuilder_get(instance, name, prefix, T, default_val, validators) IN
       last' = [op |-> "key_get", name |-> name, prefix |-> prefix, T |-> T,
                default |-> default_val, validators |-> validators, seen |-> instance,
                out |-> r.out, calls |-> r.calls, parsed |-> r.parsed]
    /\ UNCHANGED <<env, instance, pc, loc, published, arg, ret>>

\* key(name)[.with_prefix(p)].required::<T>()
Key_required(t, name, prefix, T) ==
    /\ pc[t] = "idle"
    /\ LET r == KeyBuilder_required(instance, name, prefix, T) IN
       last' = [op |-> "key_required", name |-> name, prefix |-> prefix, T |-> T,
                seen |-> instance, out |-> r.out, calls |-> r.calls, parsed |-> r.parsed]
    /\ UNCHANGED <<env, instance, pc, loc, published, arg, ret>>

\* EnvStore::from_map_with_prefixes(map, prefixes): a store owned by the caller.
Construct(t, map, prefs) ==
    /\ pc[t] = "idle"
    /\ last' = [op |-> "from_map_with_prefixes", map |-> map, prefixes |-> prefs,
                store |-> from_map_with_prefixes(map, prefs), slot |-> instance]
    /\ UNCHANGED <<env, instance, pc, loc, published, arg, ret>>

\* A query on a store the caller owns, ended by get().
Store_key_get(t, store, name, prefix, T, default_val, validators) ==
    /\ pc[t] = "idle"
    /\ LET r == EnvStore_key_get(instance, store, name, prefix, T, default_val, validators) IN
       last' = [op |-> "store_key_get", store |-> store, slot |-> instance, name |-> name,
                prefix |-> prefix, T |-> T, default |-> default_val,
                validators |-> validators, out |-> r.out, calls |-> r.calls,
                parsed |-> r.parsed]
    /\ UNCHANGED <<env, instance, pc, loc, published, arg, ret>>

\* A query on a store the caller owns, ended by required().
Store_key_required(t, store, name, prefix, T) ==
    /\ pc[t] = "idle"
    /\ LET r == EnvStore_key_required(instance, store, name, prefix, T) IN
       last' = [op |-> "store_key_required", store |-> store, slot |-> instance,
                name |-> name, prefix |-> prefix, T |-> T, out |-> r.out,
                calls |-> r.calls, parsed |-> r.parsed]
    /\ UNCHANGED <<env, instance, pc, loc, published, arg, ret>>

\* A convenience function returned r, or panicked and unwound its thread.
Convenience(t, op, name, T, default, r) ==
    /\ pc[t] = "idle"
    /\ last' = [op |-> op, name |-> name, T |-> T, default |-> default, seen |-> instance,
                result |-> r]
    /\ pc' = IF IsPanic(r) THEN [pc EXCEPT ![t] = "dead"] ELSE pc
    /\ UNCHANGED <<env, instance, loc, published, arg, ret>>

Call_get(t, name, T, default) ==
    Convenience(t, "get", name, T, Some(default), get(instance, name, T, default))

Call_get_string(t, name, default) ==
    Convenience(t, "get_string", name, "String", Some(default),
                get_string(instance, name, default))

Call_lookup(t, name, T) ==
    Convenience(t, "lookup", name, T, None, lookup_parsed(instance, name, T))

Call_lookup_string(t, name) ==
    Convenience(t, "lookup_string", name, "String", None, lookup_string(instance, name))

Call_is_set(t, name) ==
    Convenience(t, "is_set", name, "bool", None, is_set(instance, name))

Call_entries(t) ==
    Convenience(t, "entries", <<>>, "String", None, global_entries(instance))

Call_get_bool(t, name, default) ==
    Convenience(t, "get_bool", name, "bool", Some(default), get_bool(instance, name, default))

\* -------------------------------------------------------------- input sets

SeqsUpTo(S, n) == UNION {[1..k -> S] : k \in 0..n}

NoRepeat(q) == \A i, j \in 1..Len(q) : i # j => q[i] # q[j]

\* Every map whose keys are some of DOMAIN dom, each key k valued in dom[k].
PartialMaps(dom) ==
    UNION {{m \in [S -> UNION {dom[k] : k \in S}] : \A k \in S : m[k] \in dom[k]} :
           S \in SUBSET DOMAIN dom}

pA == <<"A", "_">>
pS == <<"S", "_">>
kP == <<"P">>
kAP == format(pA, kP)
kSP == format(pS, kP)

v80 == <<"8", "0">>
v0 == <<"0">>
v7 == <<"7">>
vX == <<"x">>
vYes == <<"Y", "e", "s">>
vPadded1 == <<" ", "1", " ">>
vEmpty == <<>>
vTRUE == <<"T", "R", "U", "E">>
vD == <<"d">>

EmptyEnv == [k \in {} |-> <<>>]

Prefixes == {pA, pS}
PrefixLists == SeqsUpTo(Prefixes, MaxPrefixes)
PrefixChoices == {None, Some(pA), Some(pS)}

Types == {"u16", "bool", "String"}
QueryTypes == {"u16", "bool"}
DefaultOf(T) ==
    IF T = "u16" THEN U16(0) ELSE IF T = "bool" THEN Bool(TRUE) ELSE Str(<<"d">>)

Validators == {"is_non_empty", "is_bool", "is_port"}
ValidatorLists == {q \in SeqsUpTo(Validators, MaxValidators) : NoRepeat(q)}

\* Environments and overlay files of the concurrent specification.
RaceEnvs == {EmptyEnv, kAP :> v80}
RaceLine == <<kAP, v7>>
RaceFiles ==
    {FileNotFound, FileUnreadable, FileOk(<<>>, FALSE), FileOk(<<>>, TRUE),
     FileOk(<<RaceLine>>, FALSE), FileOk(<<RaceLine>>, TRUE)}
RacePrefixLists == {<<>>, <<pA>>}

\* Environments of the query specification.
QueryEnvs ==
    PartialMaps(kP :> {v80, v0, vX} @@ kAP :> {vYes} @@ kSP :> {vPadded1})

\* Environments and defaults of the convenience specification.
ConvEnvs ==
    PartialMaps(kP :> {v80, v0, vX, vEmpty, vTRUE} @@ kAP :> {vYes} @@ kSP :> {vPadded1})
ConvDefaults(T) ==
    IF T = "u16" THEN {U16(0)}
    ELSE IF T = "bool" THEN {Bool(TRUE), Bool(FALSE)}
    ELSE {Str(vD)}

\* Overlay files of the sequential specification: absent, unreadable, or up to
\* MaxLines well-formed lines followed or not by one that does not parse.
OverlayLineSet == {<<kAP, v7>>, <<kSP, v0>>}
OverlayFiles ==
    {FileNotFound, FileUnreadable} \cup
    {FileOk(lines, bad) : lines \in SeqsUpTo(OverlayLineSet, MaxLines), bad \in BOOLEAN}

\* Environments, directly constructed stores and validator chains of the
\* specification of caller-owned stores.
DirectEnvs == {EmptyEnv, kP :> v0 @@ kAP :> v80}
DirectMaps == PartialMaps(kP :> {v80} @@ kAP :> {v7})
DirectStores == {from_map_with_prefixes(m, ps) : m \in DirectMaps, ps \in PrefixLists}
DirectValidatorLists == {<<>>, <<"is_port">>}

\* Inputs of the normalizer: a word in any mix of cases, or some other text,
\* between two runs of whitespace.
CaseVariants(w) ==
    {[i \in 1..Len(w) |-> IF i \in U THEN to_ascii_uppercase(w[i]) ELSE w[i]] :
        U \in SUBSET (1..Len(w))}
BoolWords == {sTrue, sFalse, sYes, sNo, sOne, sZero}
OtherWords ==
    {<<>>, <<"o", "n">>, <<"2">>, <<"t">>, <<"y", " ", "e", "s">>, <<"n", "o", "1">>,
     <<"t", "r", "u", "e", "e">>, <<"0", "0">>}
Pads == SeqsUpTo(WhiteSpace, MaxPad)
NormInputs ==
    {l \o w \o r : l \in Pads, r \in Pads,
                   w \in OtherWords \cup UNION {CaseVariants(b) : b \in BoolWords}}

\* Inputs of EnvStore::lookup: directly constructed stores, a key, a prefix.
LookupStores ==
    {EnvStore(m, ps) :
        m \in PartialMaps(kP :> {v0, v7} @@ kAP :> {v0, v7} @@ kSP :> {v0, v7}),
        ps \in PrefixLists}
LookupInputs ==
    {[fn |-> "lookup", store |-> st, key |-> k, preferred_prefix |-> q] :
        st \in LookupStores, k \in {kP, kAP}, q \in PrefixChoices}

\* ----------------------------------------------------------- specifications

ProgramInit(envs) ==
    /\ env \in envs
    /\ instance = None
    /\ pc = [t \in Threads |-> "idle"]
    /\ loc = [t \in Threads |-> IdleLoc]
    /\ last = NoCall
    /\ published = <<>>
    /\ arg = None
    /\ ret = <<>>

HarnessInit(inputs) ==
    /\ env = EmptyEnv
    /\ instance = None
    /\ pc = [t \in Threads |-> "idle"]
    /\ loc = [t \in Threads |-> IdleLoc]
    /\ last = NoCall
    /\ published = <<>>
    /\ arg \in {Some(i) : i \in inputs}
    /\ ret = <<>>

\* The process: NThreads threads that initialize and read concurrently.
Init == ProgramInit(RaceEnvs)

Next ==
    \E t \in Threads :
        \/ \E path_given \in BOOLEAN, file \in RaceFiles, prefs \in RacePrefixLists :
              Init_call(t, path_given, file, prefs)
        \/ Init_load(t)
        \/ Init_snapshot(t)
        \/ Init_publish(t)
        \/ Key_get(t, kP, None, "u16", U16(0), <<>>)
        \/ Key_required(t, kP, None, "u16")
        \/ Call_get(t, kP, "u16", U16(0))
        \/ Call_get_string(t, kP, vX)
        \/ Call_lookup(t, kP, "u16")
        \/ Call_lookup_string(t, kP)
        \/ Call_is_set(t, kP)
        \/ Call_entries(t)

Spec == Init /\ [][Next]_vars

\* One thread, no overlay file: every store init builds from QueryEnvs and
\* PrefixLists, and every query of the builder against it.
MainThread == CHOOSE t \in Threads : \A u \in Threads : t <= u

InitQuery == ProgramInit(QueryEnvs)

NextQuery ==
    \/ \E prefs \in PrefixLists : Init_call(MainThread, FALSE, FileNotFound, prefs)
    \/ Init_snapshot(MainThread)
    \/ Init_publish(MainThread)
    \/ \E prefix \in PrefixChoices, T \in QueryTypes, validators \in ValidatorLists :
          Key_get(MainThread, kP, prefix, T, DefaultOf(T), validators)
    \/ \E prefix \in PrefixChoices, T \in QueryTypes :
          Key_required(MainThread, kP, prefix, T)

SpecQuery == InitQuery /\ [][NextQuery]_vars

\* One thread, no overlay file: every store init builds from ConvEnvs and
\* PrefixLists, and every convenience function called on it.
InitConv == ProgramInit(ConvEnvs)

NextConv ==
    \/ \E prefs \in PrefixLists : Init_call(MainThread, FALSE, FileNotFound, prefs)
    \/ Init_snapshot(MainThread)
    \/ Init_publish(MainThread)
    \/ \E T \in Types : \E d \in ConvDefaults(T) : Call_get(MainThread, kP, T, d)
    \/ Call_get_string(MainThread, kP, vD)
    \/ \E T \in Types : Call_lookup(MainThread, kP, T)
    \/ Call_lookup_string(MainThread, kP)
    \/ Call_is_set(MainThread, kP)
    \/ Call_entries(MainThread)
    \/ \E d \in ConvDefaults("bool") : Call_get_bool(MainThread, kP, d)

SpecConv == InitConv /\ [][NextConv]_vars

\* One thread that calls init again and again, with every overlay file,
\* explicitly named or as the default file.
NextOverlay ==
    \/ \E path_given \in BOOLEAN, file \in OverlayFiles, prefs \in RacePrefixLists :
          Init_call(MainThread, path_given, file, prefs)
    \/ Init_load(MainThread)
    \/ Init_snapshot(MainThread)
    \/ Init_publish(MainThread)

SpecOverlay == Init /\ [][NextOverlay]_vars

\* One thread that initializes the slot and, before and after, constructs
\* stores of its own and queries them.
InitDirect == ProgramInit(DirectEnvs)

NextDirect ==
    \/ \E prefs \in RacePrefixLists : Init_call(MainThread, FALSE, FileNotFound, prefs)
    \/ Init_snapshot(MainThread)
    \/ Init_publish(MainThread)
    \/ \E m \in DirectMaps, ps \in PrefixLists : Construct(MainThread, m, ps)
    \/ \E st \in DirectStores, prefix \in PrefixChoices, validators \in DirectValidatorLists :
          Store_key_get(MainThread, st, kP, prefix, "u16", U16(0), validators)
    \/ \E st \in DirectStores, prefix \in PrefixChoices :
          Store_key_required(MainThread, st, kP, prefix, "u16")

SpecDirect == InitDirect /\ [][NextDirect]_vars

\* normalize_bool applied to an input, then to its own output.
InitNorm == HarnessInit({[fn |-> "normalize_bool", s |-> s] : s \in NormInputs})

Apply_normalize_bool ==
    /\ Len(ret) < 2
    /\ ret' = Append(ret, normalize_bool(IF ret = <<>> THEN Unwrap(arg).s ELSE ret[Len(ret)]))
    /\ UNCHANGED <<env, instance, pc, loc, last, published, arg>>

SpecNorm == InitNorm /\ [][Apply_normalize_bool]_vars

\* EnvStore::lookup applied to a directly constructed store.
InitLookup == HarnessInit(LookupInputs)

Apply_lookup ==
    /\ ret = <<>>
    /\ ret' = <<lookup(Unwrap(arg).store, Unwrap(arg).key, Unwrap(arg).preferred_prefix)>>
    /\ UNCHANGED <<env, instance, pc, loc, last, published, arg>>

SpecLookup == InitLookup /\ [][Apply_lookup]_vars

\* ------------------------------------------------------------------ claims

\* What the harness fed to the i-th application of the function under test.
NormInput(i) == IF i = 1 THEN Unwrap(arg).s ELSE ret[i - 1]

\* C10: normalize_bool(s) is "true" when s, trimmed and lower-cased, is one of
\* "true", "1", "yes"; "false" when it is one of "false", "0", "no"; and s
\* itself, untrimmed, otherwise. Applying it to its own output changes nothing.
C10_NormalizeBoolReference ==
    /\ \A i \in 1..Len(ret) :
          LET s == NormInput(i)
              folded == to_lowercase(trim(s))
          IN  ret[i] = IF folded \in {sTrue, sOne, sYes} THEN sTrue
                       ELSE IF folded \in {sFalse, sZero, sNo} THEN sFalse
                       ELSE s
    /\ Len(ret) = 2 => ret[2] = ret[1]

\* A padded, mixed-case spelling was normalized and normalized again.
C10_Witness ==
    /\ Len(ret) = 2
    /\ Unwrap(arg).s = <<" ", "Y", "e", "S", "\t">>
    /\ ret[1] = sTrue

\* C4: lookup(k, q) is entries[k] when no prefix is configured, entries[q + k]
\* when q is given, entries[p + k] when p is the only prefix, and not-found when
\* two or more prefixes are configured and q is not given.
C4_LookupReference ==
    ret # <<>> =>
        LET st == Unwrap(arg).store
            k == Unwrap(arg).key
            q == Unwrap(arg).preferred_prefix
            entry(full) == IF full \in DOMAIN st.map THEN <<st.map[full]>> ELSE <<>>
            n == Len(st.prefixes)
        IN  ret[1] = CASE n = 0 -> entry(k)
                       [] n > 0 /\ q # <<>> -> entry(q[1] \o k)
                       [] n = 1 /\ q = <<>> -> entry(st.prefixes[1] \o k)
                       [] n >= 2 /\ q = <<>> -> <<>>

\* A preferred prefix that is not among the configured ones found its entry.
C4_Witness ==
    /\ ret # <<>>
    /\ Unwrap(arg).store.prefixes = <<pA, pA>>
    /\ Unwrap(arg).preferred_prefix = Some(pS)
    /\ Unwrap(arg).key = kP
    /\ ret[1] = Some(v7)

\* The builder call that returned last ran against a populated slot.
KeyCall == last.op \in {"key_get", "key_required"} /\ last.seen # <<>>

SeenStore == Unwrap(last.seen)

\* The full key the call asks for once its prefix is settled, and its entry.
Unambiguous == ~(Len(SeenStore.prefixes) >= 2 /\ last.prefix = <<>>)
FullKey ==
    IF SeenStore.prefixes = <<>> THEN last.name
    ELSE IF last.prefix # <<>> THEN last.prefix[1] \o last.name
    ELSE SeenStore.prefixes[1] \o last.name
Present == KeyCall /\ Unambiguous /\ FullKey \in DOMAIN SeenStore.map
Absent == KeyCall /\ Unambiguous /\ FullKey \notin DOMAIN SeenStore.map
Raw == SeenStore.map[FullKey]

\* The string the builder works on: the canonical form for a boolean target.
Canonical(T, raw) == IF T = "bool" THEN normalize_bool(raw) ELSE raw

\* C5: with two or more prefixes and no with_prefix, get() and required() return
\* Err(AmbiguousPrefix{key}) whatever the entries, the default and the
\* validators are; with with_prefix(p) the query resolves entries[p + key].
C5_AmbiguousPrefix ==
    (KeyCall /\ Len(SeenStore.prefixes) >= 2) =>
        IF last.prefix = <<>>
        THEN /\ last.out = ErrAmbiguousPrefix(last.name)
             /\ last.calls = <<>>
             /\ last.parsed = <<>>
        ELSE LET full == last.prefix[1] \o last.name IN
             IF full \in DOMAIN SeenStore.map
             THEN LET val == Canonical(last.T, SeenStore.map[full]) IN
                  \/ IsOk(last.out) /\ last.parsed = <<val>>
                  \/ last.out = ErrParseFailed(last.name, val)
                  \/ last.out = ErrValidationFailed(last.name, val)
             ELSE last.out = IF last.op = "key_get" THEN Ok(last.default)
                             ELSE ErrNotSet(last.name)

\* An ambiguous get() on a key that exists under a configured prefix.
C5_Witness ==
    /\ last.op = "key_get"
    /\ last.seen # <<>>
    /\ SeenStore.prefixes = <<pA, pS>>
    /\ kAP \in DOMAIN SeenStore.map
    /\ last.validators = <<"is_bool">>
    /\ last.out = ErrAmbiguousPrefix(kP)

\* C6: when the key is absent, default(d).get() returns Ok(d) without calling a
\* validator or parsing, and required() returns Err(NotSet{key}).
C6_AbsentKey ==
    Absent =>
        /\ last.calls = <<>>
        /\ last.parsed = <<>>
        /\ last.out = IF last.op = "key_get" THEN Ok(last.default) ELSE ErrNotSet(last.name)

\* The default 0 came back although the is_port validator rejects "0".
C6_Witness ==
    /\ Absent
    /\ last.op = "key_get"
    /\ last.T = "u16"
    /\ last.validators = <<"is_port">>
    /\ ~is_port(to_string(last.default.u16))
    /\ last.out = Ok(U16(0))
    /\ DOMAIN SeenStore.map # {}

\* Integers whose decimal form the round trip is checked on.
RoundTripValues == {0, 80}

\* C7: for a present key whose validators all pass, the result is Ok(v) when the
\* stored string (in canonical form for bool) parses to v and
\* Err(ParseFailed{key, value}) when it does not; a stored to_string(v) of an
\* integer v gives Ok(v); the default and NotSet never come back.
C7_PresentKey ==
    Present =>
        LET val == Canonical(last.T, Raw)
            passes == \/ last.op = "key_required"
                      \/ \A i \in 1..Len(last.validators) :
                            call_validator(last.validators[i], val)
        IN  /\ ~IsErr(last.out, "NotSet")
            /\ passes =>
                 /\ last.parsed = <<val>>
                 /\ IF parse(last.T, val) # <<>>
                    THEN last.out = Ok(parse(last.T, val)[1])
                    ELSE last.out = ErrParseFailed(last.name, val)
            /\ \A n \in RoundTripValues :
                 (last.T = "u16" /\ Raw = to_string(n) /\ passes) => last.out = Ok(U16(n))

\* A stored "80" came back as 80, not as the default 0, past the is_port check.
C7_Witness ==
    /\ Present
    /\ last.op = "key_get"
    /\ last.T = "u16"
    /\ Raw = v80
    /\ last.default = U16(0)
    /\ last.validators = <<"is_port">>
    /\ last.out = Ok(U16(80))

\* C8: get() on a present key calls the validators in the order they were
\* added, stops at the first that returns false with ValidationFailed{key,
\* value} and without parsing, and parses only when all of them returned true.
C8_ValidatorOrder ==
    (Present /\ last.op = "key_get") =>
        LET val == Canonical(last.T, Raw)
            failing == {i \in 1..Len(last.validators) :
                           ~call_validator(last.validators[i], val)}
            first == CHOOSE i \in failing : \A j \in failing : i <= j
        IN  /\ Len(last.calls) <= Len(last.validators)
            /\ \A i \in 1..Len(last.calls) : last.calls[i].validator = last.validators[i]
            /\ IF failing # {}
               THEN /\ Len(last.calls) = first
                    /\ last.out = ErrValidationFailed(last.name, val)
                    /\ last.parsed = <<>>
               ELSE /\ Len(last.calls) = Len(last.validators)
                    /\ last.parsed = <<val>>
                    /\ ~IsErr(last.out, "ValidationFailed")

\* "x" fails is_port, the first validator, and is no u16 either: the second
\* validator was not called and the error is ValidationFailed.
C8_Witness ==
    /\ Present
    /\ last.op = "key_get"
    /\ last.T = "u16"
    /\ Raw = vX
    /\ last.validators = <<"is_port", "is_bool">>
    /\ Len(last.calls) = 1
    /\ parse("u16", vX) = <<>>
    /\ last.out = ErrValidationFailed(kP, vX)

\* C9: with a boolean target the stored string is normalized before validators
\* and parsing: for an accepted spelling every validator receives "true" or
\* "false", and ValidationFailed / ParseFailed carry the normalized string; for
\* any other target validators and errors get the stored string as it is.
C9_BoolNormalizedFirst ==
    Present =>
        LET spelling == to_lowercase(trim(Raw)) \in {sTrue, sOne, sYes, sFalse, sZero, sNo}
            expected == IF last.T = "bool" THEN normalize_bool(Raw) ELSE Raw
        IN  /\ (last.T = "bool" /\ spelling) => expected \in {sTrue, sFalse}
            /\ \A i \in 1..Len(last.calls) : last.calls[i].s = expected
            /\ (IsErr(last.out, "ValidationFailed") \/ IsErr(last.out, "ParseFailed")) =>
                 last.out.value = expected
            /\ last.parsed # <<>> => last.parsed = <<expected>>

\* "Yes" read as bool: is_port was handed "true" and the error carries "true".
C9_Witness ==
    /\ Present
    /\ last.op = "key_get"
    /\ last.T = "bool"
    /\ Raw = vYes
    /\ last.validators = <<"is_bool", "is_port">>
    /\ last.calls = <<[validator |-> "is_bool", s |-> sTrue],
                      [validator |-> "is_port", s |-> sTrue]>>
    /\ last.out = ErrValidationFailed(kP, sTrue)

InitReturn == last.op = "init"
ConvenienceOps == {"get", "get_string", "lookup", "lookup_string", "is_set", "entries"}
ReadOps == ConvenienceOps \cup {"key_get", "key_required"}

\* The slot was written at most once, by the one init call that returned Ok,
\* and holds what that call built.
WrittenOnce ==
    /\ Len(published) <= 1
    /\ instance = <<>> <=> published = <<>>
    /\ instance # <<>> => instance = <<published[1]>>
    /\ (InitReturn /\ IsOk(last.out)) => (last.stage = "publish" /\ <<last.built>> = <<published>>)
    /\ (last.op \in ReadOps /\ last.seen # <<>>) => last.seen = instance

\* C1 as stated: the slot is populated at most once and never changed after,
\* and every init call made while it is populated returns Err(AlreadyInitialized).
C1_AsStated ==
    /\ WrittenOnce
    /\ (InitReturn /\ last.populated) => last.out = ErrAlreadyInitialized

\* C1, amended: the slot is populated at most once, by the first init call that
\* reaches publication, and never changed after; every init call made while it
\* is populated returns an error: Err(AlreadyInitialized) when the call reaches
\* publication, the error of its overlay load when that load fails.
C1_PopulatedOnce ==
    /\ WrittenOnce
    /\ (InitReturn /\ last.populated) =>
          IF last.stage = "publish"
          THEN last.out = ErrAlreadyInitialized
          ELSE IsErr(last.out, "Dotenv")

\* A second init built another store than the published one and was refused.
C1_Witness ==
    /\ InitReturn
    /\ last.populated
    /\ last.out = ErrAlreadyInitialized
    /\ last.built # instance
    /\ instance = <<published[1]>>

\* What every read observed: the empty slot or the one published store.
ReadersSeeWinner ==
    (last.op \in ReadOps) =>
        \/ last.seen = <<>>
        \/ published # <<>> /\ last.seen = <<published[1]>>

\* Another thread is inside an init call that it made while the slot was empty.
RacingInit == \E t \in Threads : pc[t] \in {"load", "snapshot", "publish"} /\ ~loc[t].populated

\* C2 as stated: an init call made while the slot is empty, concurrently with
\* another such call, returns Ok (it is the one winner, and the slot holds its
\* store) or Err(AlreadyInitialized); a reader sees the empty slot or the
\* winner's store.
C2_AsStated ==
    /\ Len(published) <= 1
    /\ (InitReturn /\ ~last.populated /\ RacingInit) =>
          \/ last.out = Ok(Unit) /\ <<last.built>> = <<published>>
          \/ last.out = ErrAlreadyInitialized
    /\ ReadersSeeWinner

\* C2, amended: of the init calls made while the slot is empty that reach
\* publication exactly one returns Ok and every other returns
\* Err(AlreadyInitialized); a call whose overlay load fails returns that error
\* and publishes nothing; a reader sees the empty slot or the winner's store.
C2_OneWinner ==
    /\ Len(published) <= 1
    /\ (InitReturn /\ ~last.populated) =>
          IF last.stage = "publish"
          THEN /\ Len(published) = 1
               /\ \/ last.out = Ok(Unit) /\ <<last.built>> = <<published>>
                  \/ last.out = ErrAlreadyInitialized
          ELSE /\ IsErr(last.out, "Dotenv")
               /\ last.built = <<>>
    /\ ReadersSeeWinner

\* An init call made while the slot was empty lost the race to another thread,
\* whose store is the one in the slot.
C2_Witness ==
    /\ InitReturn
    /\ ~last.populated
    /\ last.stage = "publish"
    /\ last.out = ErrAlreadyInitialized
    /\ last.built # instance
    /\ instance = <<published[1]>>

ConvCall == last.op \in ConvenienceOps \cup {"get_bool"} /\ last.seen # <<>>

\* What lookup(name, None) finds in the store the call saw, by the number of
\* configured prefixes.
ConvFound ==
    LET st == SeenStore
        entry(full) == IF full \in DOMAIN st.map THEN <<st.map[full]>> ELSE <<>>
    IN  CASE Len(st.prefixes) = 0 -> entry(last.name)
          [] Len(st.prefixes) = 1 -> entry(st.prefixes[1] \o last.name)
          [] Len(st.prefixes) >= 2 -> <<>>

\* The value the found string parses to as a T, if it does.
ConvParsed == IF ConvFound = <<>> THEN <<>> ELSE parse(last.T, Canonical(last.T, ConvFound[1]))

\* C11: on an initialized store no convenience function panics or returns an
\* error: get returns the parsed value when lookup(name, None) finds a value
\* that parses and the default in every other case (absent, unparseable, two or
\* more prefixes); lookup returns None in those cases; with two or more
\* prefixes get_string returns the default and is_set returns false.
C11_ConvenienceCollapses ==
    (ConvCall /\ last.op \in ConvenienceOps) =>
        /\ DOMAIN last.result = {"value"}
        /\ last.op = "get" =>
              last.result.value = IF ConvParsed # <<>> THEN ConvParsed[1] ELSE last.default[1]
        /\ last.op = "lookup" => last.result.value = ConvParsed
        /\ (last.op = "get_string" /\ Len(SeenStore.prefixes) >= 2) =>
              last.result.value = last.default[1]
        /\ (last.op = "is_set" /\ Len(SeenStore.prefixes) >= 2) =>
              last.result.value = FALSE
        /\ last.op = "get" => "err" \notin DOMAIN last.result.value
        /\ last.op = "lookup" =>
              \A i \in DOMAIN last.result.value : "err" \notin DOMAIN last.result.value[i]

\* With the prefixes A_ and S_ configured, get::<bool>("P", false) returned the
\* default although A_P holds "Yes".
C11_Witness ==
    /\ ConvCall
    /\ last.op = "get"
    /\ last.T = "bool"
    /\ SeenStore.prefixes = <<pA, pS>>
    /\ kAP \in DOMAIN SeenStore.map
    /\ SeenStore.map[kAP] = vYes
    /\ last.default = <<Bool(FALSE)>>
    /\ last.result = Returned(Bool(FALSE))

KeysMatchPrefixes(store) ==
    \A k \in DOMAIN store.map :
        \E i \in 1..Len(store.prefixes) :
            Len(store.prefixes[i]) <= Len(k) /\ SubSeq(k, 1, Len(store.prefixes[i])) = store.prefixes[i]

\* Every entry of the store is an entry of its source, name and value unchanged.
EntriesFrom(store, source) ==
    \A k \in DOMAIN store.map : k \in DOMAIN source /\ store.map[k] = source[k]

\* C13: a store with a non-empty prefix list, built by init or directly by
\* from_map_with_prefixes, holds only keys that start with a configured prefix,
\* each under its original name with the value of the source; a store built by
\* init with no prefix is the environment snapshot verbatim.
C13_PrefixFilterInvariant ==
    /\ instance # <<>> =>
          LET st == instance[1] IN
          /\ st.prefixes # <<>> => (KeysMatchPrefixes(st) /\ EntriesFrom(st, env))
          /\ st.prefixes = <<>> => st.map = env
    /\ (last.op = "from_map_with_prefixes" /\ last.prefixes # <<>>) =>
          (KeysMatchPrefixes(last.store) /\ EntriesFrom(last.store, last.map))

\* The store query that returned last.
StoreCall == last.op \in {"store_key_get", "store_key_required"}

\* The full key a store query asks for once its prefix is settled.
StoreUnambiguous == ~(Len(last.store.prefixes) >= 2 /\ last.prefix = <<>>)
StoreFullKey ==
    IF last.store.prefixes = <<>> THEN last.name
    ELSE IF last.prefix # <<>> THEN last.prefix[1] \o last.name
    ELSE last.store.prefixes[1] \o last.name

OverlayLines == {last.lines[i] : i \in 1..Len(last.lines)}

\* The key passes the prefix filter of the store.
Kept(store, k) ==
    \/ store.prefixes = <<>>
    \/ \E i \in 1..Len(store.prefixes) :
          Len(store.prefixes[i]) <= Len(k) /\ SubSeq(k, 1, Len(store.prefixes[i])) = store.prefixes[i]

\* C14: after a successful init whose overlay file defines k = v, the process
\* environment and the published store both map k to v, also when the
\* environment held k with another value before: the overlay overrides.
C14_OverlayOverrides ==
    (InitReturn /\ IsOk(last.out)) =>
        \A line \in OverlayLines :
            /\ line[1] \in DOMAIN env
            /\ env[line[1]] = line[2]
            /\ Kept(instance[1], line[1]) =>
                  /\ line[1] \in DOMAIN instance[1].map
                  /\ instance[1].map[line[1]] = line[2]

\* The overlay file of a call is one whose load fails: an explicitly named
\* file that is missing or unreadable, a default file that is unreadable, or a
\* file with a line that does not parse.
LoadFails(path_given, file) ==
    \/ path_given /\ file.status # "ok"
    \/ ~path_given /\ file.status = "unreadable"
    \/ file.status = "ok" /\ file.bad

\* A step in which the init call of thread t returns the error of its load.
LoadErrorReturn(t) ==
    /\ pc'[t] = "idle"
    /\ last'.op = "init"
    /\ last'.out \in {ErrDotenv("Io"), ErrDotenv("LineParse")}
    /\ last'.built = <<>>
    /\ instance' = instance
    /\ published' = published

\* A step in which thread t was idle and left it, or in which an init call
\* returned from its load: the steps an init call of t can be.
MayCallInit(t) ==
    /\ pc[t] = "idle"
    /\ \/ pc'[t] # "idle"
       \/ last'.op = "init" /\ last'.stage = "load"

\* C16: an init call whose overlay load fails returns an error and publishes
\* nothing, the slot keeping the state it had; the slot is written only by a
\* publication that returns Ok; a missing default overlay file is no error, the
\* call goes on to the snapshot.
C16_LoadFailureKeepsSlot ==
    [][/\ \A t \in Threads :
            /\ MayCallInit(t) =>
                  \A path_given \in BOOLEAN, file \in OverlayFiles, prefs \in RacePrefixLists :
                     Init_call(t, path_given, file, prefs) =>
                        IF LoadFails(path_given, file)
                        THEN \/ LoadErrorReturn(t)
                             \/ pc'[t] = "load" /\ loc'[t].bad /\ instance' = instance
                        ELSE /\ pc'[t] \in {"load", "snapshot"}
                             /\ ~loc'[t].bad
                             /\ (file = FileNotFound) => pc'[t] = "snapshot"
            /\ (pc[t] = "load" /\ loc[t].bad) =>
                  \/ pc'[t] = "load" /\ loc'[t].bad
                  \/ LoadErrorReturn(t)
            /\ (pc[t] = "load" /\ ~loc[t].bad) => pc'[t] \in {"load", "snapshot"}
       /\ (instance' # instance) =>
            /\ instance = <<>>
            /\ \E t \in Threads : pc[t] = "publish" /\ pc'[t] = "idle"
            /\ last'.op = "init" /\ last'.out = [ok |-> <<>>] /\ last'.stage = "publish"
      ]_vars

\* An init call with no overlay succeeded on the empty slot and captured S_P,
\* which no environment starts with: an earlier call had merged it from its
\* overlay and then failed on the bad line, leaving the slot empty.
C16_Witness ==
    /\ InitReturn
    /\ last.out = Ok(Unit)
    /\ ~last.populated
    /\ last.lines = <<>>
    /\ instance = <<published[1]>>
    /\ kSP \in DOMAIN instance[1].map

\* C17: an init call that ends in Err(AlreadyInitialized) had taken its snapshot
\* and merged its overlay into the live environment, which maps every overlay
\* key to the overlay's value; the published store is the snapshot of the first
\* successful init, unaffected by that, and reads keep returning its values.
C17_LoserMergedOverlay ==
    /\ (InitReturn /\ last.out = ErrAlreadyInitialized) =>
          /\ last.built # <<>>
          /\ \A line \in OverlayLines : line[1] \in DOMAIN env /\ env[line[1]] = line[2]
          /\ instance = <<published[1]>>
    /\ instance # <<>> => instance = <<published[1]>>
    /\ (last.op = "lookup_string" /\ last.seen # <<>>) =>
          LET st == published[1]
              full == IF st.prefixes = <<>> THEN last.name ELSE st.prefixes[1] \o last.name
          IN  last.result.value = IF full \in DOMAIN st.map THEN <<st.map[full]>> ELSE <<>>

====
